---- MODULE Spec2Model ----
(***************************************************************************)
(* Model of the betty syntax highlighter (src/src/highligher.rs).          *)
(*                                                                         *)
(* A character is a one-character string; a Rust String is a sequence of   *)
(* characters; Option<char>::None is the value None.  A Token is the pair  *)
(* <<type, literal>>.  The static tables hold whole strings, exactly as in *)
(* the source, and a scanned literal is compared with them through Str.    *)
(***************************************************************************)
EXTENDS Integers, Sequences, FiniteSets, TLC

\* The highlighter: the text given to Highligher::new, the fields of the
\* Highligher, the vector built by make_tokens, and whether it has returned.
VARIABLES input, source, current_char, tokens, returned

\* A call of highlight_text: its three arguments, the layout job it builds,
\* and whether it has returned.
VARIABLES text, code_color, font_size, job, hl_done

\* The CodeEditor: its fields contents, path, console, saved and settings,
\* the files of the disk, and the last handler run with what its dialog,
\* its file operations and its process launch did.
VARIABLES contents, path, console, saved, settings, files, event

lexVars == <<input, source, current_char, tokens, returned>>

hlVars == <<text, code_color, font_size, job, hl_done>>

edVars == <<contents, path, console, saved, settings, files, event>>

vars == <<lexVars, hlVars, edVars>>

(***************************************************************************)
(* Bounds of the checked inputs.                                           *)
(***************************************************************************)
MaxChunks == 3
MaxLiveLen == 3
MaxText == 1

None == "None"

(***************************************************************************)
(* Character classes used by the match patterns.                           *)
(***************************************************************************)
LowerCase ==
    {"a", "b", "c", "d", "e", "f", "g", "h", "i", "j", "k", "l", "m",
     "n", "o", "p", "q", "r", "s", "t", "u", "v", "w", "x", "y", "z"}

UpperCase ==
    {"A", "B", "C", "D", "E", "F", "G", "H", "I", "J", "K", "L", "M",
     "N", "O", "P", "Q", "R", "S", "T", "U", "V", "W", "X", "Y", "Z"}

Digits == {"0", "1", "2", "3", "4", "5", "6", "7", "8", "9"}

\* 'a'..='z' | 'A'..='Z' | '_'
IsIdentStart(ch) == ch \in LowerCase \cup UpperCase \cup {"_"}

\* 'a'..='z' | 'A'..='Z' | '0'..='9': the pattern without '_'.
IsIdentCharNoUnderscore(ch) == ch \in LowerCase \cup UpperCase \cup Digits

\* 'a'..='z' | 'A'..='Z' | '_' | '0'..='9'
IsIdentChar(ch) == ch \in LowerCase \cup UpperCase \cup {"_"} \cup Digits

\* '0'..='9'
IsDigit(ch) == ch \in Digits

\* '0'..='9' | '.' | '_'
IsNumChar(ch) == ch \in Digits \cup {".", "_"}

(***************************************************************************)
(* The static tables.                                                      *)
(***************************************************************************)
KEYWORDS ==
    {"and", "or", "not", "if", "else", "do", "end", "for", "foreach",
     "while", "fun", "continue", "break", "return", "match", "try",
     "catch", "in", "throw", "using", "as", "true", "false", "nothing",
     "newerror"}

ERRORS ==
    {"ValueError", "TypeError", "UnknownIdentifierError", "OverflowError",
     "DivisionByZeroError", "IndexOutOfBoundsError", "FileIOError",
     "VectorMutationError", "ModuleImportError", "AssertionError",
     "WrongArgumentsNumberError"}

BUILTIN_FUNCTIONS ==
    {"print", "println", "read_line", "to_int", "to_float", "to_str",
     "vpush_back", "vpush_front", "vpush_at", "vpop_front", "vpop_back",
     "vpop_at", "vfrom_range", "vcopy", "str_starts_with", "str_ends_with",
     "str_is_lowercase", "str_is_uppercase", "str_to_lowercase",
     "str_to_uppercase", "len", "get", "join", "slice", "split", "replace",
     "fread", "fwrite", "fappend", "err_short", "err_traceback", "err_kind",
     "err_line", "err_description", "assert", "isint", "isfloat", "isstr",
     "isbool", "isvec", "iscallable", "iserr"}

SYMBOLS == {"+", "-", "*", "/", "^", "%", ":", "=", ">", "<", "!", "?"}

(***************************************************************************)
(* String helpers.                                                         *)
(***************************************************************************)
\* The string spelled by a sequence of characters (String::as_str).
RECURSIVE Str(_)
Str(s) == IF s = <<>> THEN "" ELSE Head(s) \o Str(Tail(s))

\* str::replace('_', "")
RECURSIVE RemoveUnderscores(_)
RemoveUnderscores(s) ==
    IF s = <<>> THEN <<>>
    ELSE IF Head(s) = "_" THEN RemoveUnderscores(Tail(s))
    ELSE <<Head(s)>> \o RemoveUnderscores(Tail(s))

RECURSIVE CountOf(_, _)
CountOf(c, s) ==
    IF s = <<>> THEN 0
    ELSE (IF Head(s) = c THEN 1 ELSE 0) + CountOf(c, Tail(s))

RECURSIVE DropLeadingZeros(_)
DropLeadingZeros(s) ==
    IF s /= <<>> /\ Head(s) = "0" THEN DropLeadingZeros(Tail(s)) ELSE s

DigitVal(ch) ==
    CASE ch = "0" -> 0 [] ch = "1" -> 1 [] ch = "2" -> 2 [] ch = "3" -> 3
      [] ch = "4" -> 4 [] ch = "5" -> 5 [] ch = "6" -> 6 [] ch = "7" -> 7
      [] ch = "8" -> 8 [] ch = "9" -> 9

\* Digits of i64::MAX = 9223372036854775807.
I64MaxDigits ==
    <<"9", "2", "2", "3", "3", "7", "2", "0", "3", "6", "8", "5", "4", "7",
      "7", "5", "8", "0", "7">>

\* a <= b for two digit strings of the same length.
RECURSIVE DigitsLeq(_, _)
DigitsLeq(a, b) ==
    IF a = <<>> THEN TRUE
    ELSE IF DigitVal(Head(a)) < DigitVal(Head(b)) THEN TRUE
    ELSE IF DigitVal(Head(a)) > DigitVal(Head(b)) THEN FALSE
    ELSE DigitsLeq(Tail(a), Tail(b))

\* str::parse::<i64>().is_ok() on a string without sign: a non-empty run of
\* decimal digits whose value does not overflow 64 bits (the value is never
\* computed: the comparison is made on the digits).
ParseIntOk(s) ==
    /\ s /= <<>>
    /\ \A i \in 1..Len(s) : s[i] \in Digits
    /\ LET d == DropLeadingZeros(s) IN
         \/ Len(d) < Len(I64MaxDigits)
         \/ Len(d) = Len(I64MaxDigits) /\ DigitsLeq(d, I64MaxDigits)

\* str::parse::<f64>().is_ok() on a string of digits and '.': digits with at
\* most one '.', at least one digit; an overlong value parses to infinity.
ParseFloatOk(s) ==
    /\ s /= <<>>
    /\ \A i \in 1..Len(s) : s[i] \in Digits \cup {"."}
    /\ CountOf(".", s) <= 1
    /\ \E i \in 1..Len(s) : s[i] \in Digits

(***************************************************************************)
(* The scanner: every routine takes the cursor (current_char, source) and  *)
(* returns the token with the cursor after it.                             *)
(***************************************************************************)
\* Highligher::new, variant that forgets to load the first character.
newUnprimed(s) == [current_char |-> None, source |-> s]

\* Highligher::new
new(s) ==
    IF s = <<>> THEN [current_char |-> None, source |-> <<>>]
    ELSE [current_char |-> Head(s), source |-> Tail(s)]

\* Highligher::advance
advance(src) ==
    IF src = <<>> THEN [current_char |-> None, source |-> <<>>]
    ELSE [current_char |-> Head(src), source |-> Tail(src)]

\* self.source.iter().find(|ch| ![' ', '\t'].contains(ch))
RECURSIVE FindFirst(_)
FindFirst(src) ==
    IF src = <<>> THEN None
    ELSE IF Head(src) \in {" ", "\t"} THEN FindFirst(Tail(src))
    ELSE Head(src)

\* Highligher::next_is, variant that looks at the current character only.
next_isNoSkip(cur, src, ch) == cur = ch

\* Highligher::next_is
next_is(cur, src, ch) ==
    IF cur = ch THEN TRUE
    ELSE LET first == FindFirst(src) IN
         IF first /= None THEN first = ch ELSE FALSE

\* The scan state after a call of next_is, variant that advances over the
\* spaces and tabs it skips.
RECURSIVE next_is_cursorSkipping(_, _, _)
next_is_cursorSkipping(cur, src, ch) ==
    IF cur \in {" ", "\t"}
    THEN LET a == advance(src) IN
         next_is_cursorSkipping(a.current_char, a.source, ch)
    ELSE [current_char |-> cur, source |-> src]

\* The scan state after a call of next_is: it takes &mut self, but reads
\* current_char and iterates over source without assigning either.
next_is_cursor(cur, src, ch) == [current_char |-> cur, source |-> src]

\* The classification chain of make_ident, variant testing the call first.
ident_typeCallFirst(ident, cur, src) ==
    IF next_is(cur, src, "(") THEN "Fun"
    ELSE IF Str(ident) \in KEYWORDS THEN "Kw"
    ELSE IF Str(ident) \in BUILTIN_FUNCTIONS THEN "BuiltinFun"
    ELSE IF Str(ident) \in ERRORS THEN "Error"
    ELSE "Ident"

\* The classification chain of make_ident, variant without the lookup of
\* the builtin errors.
ident_typeNoErrors(ident, cur, src) ==
    IF Str(ident) \in KEYWORDS THEN "Kw"
    ELSE IF Str(ident) \in BUILTIN_FUNCTIONS THEN "BuiltinFun"
    ELSE IF next_is(cur, src, "(") THEN "Fun"
    ELSE "Ident"

\* The classification chain of make_ident.
ident_type(ident, cur, src) ==
    IF Str(ident) \in KEYWORDS THEN "Kw"
    ELSE IF Str(ident) \in BUILTIN_FUNCTIONS THEN "BuiltinFun"
    ELSE IF Str(ident) \in ERRORS THEN "Error"
    ELSE IF next_is(cur, src, "(") THEN "Fun"
    ELSE "Ident"

\* The loop of make_ident, variant that stops as soon as the text read so
\* far is a keyword.
RECURSIVE ident_loopKeyword(_, _, _)
ident_loopKeyword(ident, cur, src) ==
    IF cur /= None /\ IsIdentChar(cur) /\ Str(ident) \notin KEYWORDS
    THEN LET a == advance(src) IN
         ident_loopKeyword(Append(ident, cur), a.current_char, a.source)
    ELSE [lit |-> ident, current_char |-> cur, source |-> src]

\* The loop of make_ident.
RECURSIVE ident_loop(_, _, _)
ident_loop(ident, cur, src) ==
    IF cur /= None /\ IsIdentChar(cur)
    THEN LET a == advance(src) IN
         ident_loop(Append(ident, cur), a.current_char, a.source)
    ELSE [lit |-> ident, current_char |-> cur, source |-> src]

\* Highligher::make_ident
make_ident(cur, src) ==
    LET r == ident_loop(<<>>, cur, src)
        \* next_is is reached only when the three table tests fail
        called == Str(r.lit) \notin KEYWORDS \cup BUILTIN_FUNCTIONS \cup ERRORS
        c == IF called THEN next_is_cursor(r.current_char, r.source, "(")
             ELSE [current_char |-> r.current_char, source |-> r.source]
    IN  [tok |-> <<ident_type(r.lit, r.current_char, r.source), r.lit>>,
         current_char |-> c.current_char, source |-> c.source]

\* The loop of make_num, variant that stops before a second '.'.
RECURSIVE num_loopOneDot(_, _, _)
num_loopOneDot(num, cur, src) ==
    IF cur /= None /\ IsNumChar(cur) /\ ~(cur = "." /\ CountOf(".", num) >= 1)
    THEN LET a == advance(src) IN
         num_loopOneDot(Append(num, cur), a.current_char, a.source)
    ELSE [lit |-> num, current_char |-> cur, source |-> src]

\* The loop of make_num.
RECURSIVE num_loop(_, _, _)
num_loop(num, cur, src) ==
    IF cur /= None /\ IsNumChar(cur)
    THEN LET a == advance(src) IN
         num_loop(Append(num, cur), a.current_char, a.source)
    ELSE [lit |-> num, current_char |-> cur, source |-> src]

\* The classification of make_num, variant that parses the text as typed.
num_typeRaw(num) ==
    IF ParseIntOk(num) \/ ParseFloatOk(num) THEN "Num" ELSE "Other"

\* The classification of make_num, variant without the float parse.
num_typeIntOnly(num) ==
    IF ParseIntOk(RemoveUnderscores(num)) THEN "Num" ELSE "Other"

\* The classification of make_num.
num_type(num) ==
    IF \/ ParseIntOk(RemoveUnderscores(num))
       \/ ParseFloatOk(RemoveUnderscores(num))
    THEN "Num" ELSE "Other"

\* Highligher::make_num
make_num(cur, src) ==
    LET r == num_loop(<<>>, cur, src) IN
    [tok |-> <<num_type(r.lit), r.lit>>,
     current_char |-> r.current_char, source |-> r.source]

\* The loop of make_str, variant that closes an unterminated string.
RECURSIVE str_loopClosing(_, _, _)
str_loopClosing(string, cur, src) ==
    IF cur /= None /\ cur /= "\""
    THEN LET a == advance(src) IN
         str_loopClosing(Append(string, cur), a.current_char, a.source)
    ELSE IF cur /= None /\ cur = "\""
    THEN LET a == advance(src) IN
         [tok |-> <<"Str", Append(string, "\"")>>,
          current_char |-> a.current_char, source |-> a.source]
    ELSE [tok |-> <<"Str", Append(string, "\"")>>,
          current_char |-> cur, source |-> src]

\* The loop of make_str, variant in which a backslash escapes the next
\* character.
RECURSIVE str_loopEscapes(_, _, _)
str_loopEscapes(string, cur, src) ==
    IF cur /= None /\ cur = "\\" /\ src /= <<>>
    THEN LET a == advance(Tail(src)) IN
         str_loopEscapes(string \o <<cur, Head(src)>>,
                         a.current_char, a.source)
    ELSE IF cur /= None /\ cur /= "\""
    THEN LET a == advance(src) IN
         str_loopEscapes(Append(string, cur), a.current_char, a.source)
    ELSE IF cur /= None /\ cur = "\""
    THEN LET a == advance(src) IN
         [tok |-> <<"Str", Append(string, "\"")>>,
          current_char |-> a.current_char, source |-> a.source]
    ELSE [tok |-> <<"Str", string>>, current_char |-> cur, source |-> src]

\* The loop of make_str.
RECURSIVE str_loop(_, _, _)
str_loop(string, cur, src) ==
    IF cur /= None /\ cur /= "\""
    THEN LET a == advance(src) IN
         str_loop(Append(string, cur), a.current_char, a.source)
    ELSE IF cur /= None /\ cur = "\""
    THEN LET a == advance(src) IN
         [tok |-> <<"Str", Append(string, "\"")>>,
          current_char |-> a.current_char, source |-> a.source]
    ELSE [tok |-> <<"Str", string>>, current_char |-> cur, source |-> src]

\* Highligher::make_str, variant that drops the closing quote.
make_strNoQuote(cur, src) ==
    LET r == str_loop(<<"\"">>, advance(src).current_char, advance(src).source)
    IN  IF Len(r.tok[2]) > 1 /\ r.tok[2][Len(r.tok[2])] = "\""
        THEN [r EXCEPT !.tok = <<"Str", SubSeq(r.tok[2], 1, Len(r.tok[2]) - 1)>>]
        ELSE r

\* Highligher::make_str
make_str(cur, src) ==
    LET a == advance(src) IN str_loop(<<"\"">>, a.current_char, a.source)

\* The loop of make_comment, variant that takes the newline into the comment.
RECURSIVE comment_loopEatNewline(_, _, _)
comment_loopEatNewline(comment, cur, src) ==
    IF cur /= None /\ cur /= "\n"
    THEN LET a == advance(src) IN
         comment_loopEatNewline(Append(comment, cur), a.current_char, a.source)
    ELSE IF cur /= None
    THEN LET a == advance(src) IN
         [tok |-> <<"Comment", Append(comment, cur)>>,
          current_char |-> a.current_char, source |-> a.source]
    ELSE [tok |-> <<"Comment", comment>>,
          current_char |-> cur, source |-> src]

\* The loop of make_comment.
RECURSIVE comment_loop(_, _, _)
comment_loop(comment, cur, src) ==
    IF cur /= None /\ cur /= "\n"
    THEN LET a == advance(src) IN
         comment_loop(Append(comment, cur), a.current_char, a.source)
    ELSE [tok |-> <<"Comment", comment>>,
          current_char |-> cur, source |-> src]

\* Highligher::make_comment
make_comment(cur, src) ==
    LET a == advance(src) IN comment_loop(<<"|">>, a.current_char, a.source)

\* Highligher::make_sym_or_other, variant with the symbols that SYMBOLS
\* leaves commented out.
make_sym_or_otherAll(ch, src) ==
    LET typ == IF ch \in SYMBOLS \cup {"(", ")", "[", "]", ".", ","}
               THEN "Sym" ELSE "Other"
        a == advance(src)
    IN  [tok |-> <<typ, <<ch>> >>,
         current_char |-> a.current_char, source |-> a.source]

\* Highligher::make_sym_or_other
make_sym_or_other(ch, src) ==
    LET typ == IF ch \in SYMBOLS THEN "Sym" ELSE "Other"
        a == advance(src)
    IN  [tok |-> <<typ, <<ch>> >>,
         current_char |-> a.current_char, source |-> a.source]

\* The match of make_tokens: the scan chosen by the current character.
scan(ch, src) ==
    IF IsIdentStart(ch) THEN make_ident(ch, src)
    ELSE IF IsDigit(ch) THEN make_num(ch, src)
    ELSE IF ch = "\"" THEN make_str(ch, src)
    ELSE IF ch = "|" THEN make_comment(ch, src)
    ELSE make_sym_or_other(ch, src)

\* The loop of make_tokens.
RECURSIVE tokens_loop(_, _, _)
tokens_loop(toks, cur, src) ==
    IF cur /= None
    THEN LET r == scan(cur, src) IN
         tokens_loop(Append(toks, r.tok), r.current_char, r.source)
    ELSE toks

\* Highligher::new(s).make_tokens(), as one call.
make_tokens(s) ==
    LET h == new(s) IN tokens_loop(<<>>, h.current_char, h.source)

(***************************************************************************)
(* The inputs: every text made of at most MaxChunks chunks, a chunk being  *)
(* one character of a small alphabet or one whole word.                    *)
(***************************************************************************)
Alphabet ==
    {"f", "y", "_", "1", ".", "(", " ", "\t", "\n", "\"", "|"}

Words ==
    { <<"i", "f">>,
      <<"I", "f">>,
      <<"p", "r", "i", "n", "t">>,
      <<"T", "y", "p", "e", "E", "r", "r", "o", "r">>,
      <<"1", "_", "0", "0", "0">>,
      <<"1", ".", "2", ".", "3">>,
      <<"\\", "\"">>,
      <<"9", "2", "2", "3", "3", "7", "2", "0", "3", "6", "8", "5", "4", "7",
        "7", "5", "8", "0", "8">> }

Chunks == { <<c>> : c \in Alphabet } \cup Words

RECURSIVE Flatten(_)
Flatten(ss) == IF ss = <<>> THEN <<>> ELSE Head(ss) \o Flatten(Tail(ss))

\* The punctuation of betty: the characters of SYMBOLS and those it leaves
\* out.
Punctuation ==
    {"+", "-", "*", "/", "^", "%", ":", "=", ">", "<", "!", "?",
     "(", ")", "[", "]", ",", "."}

\* One punctuation character between two texts of at most one chunk.
PunctuationInputs ==
    { a \o <<c>> \o b :
        a \in Chunks \cup {<<>>}, c \in Punctuation, b \in Chunks \cup {<<>>} }

Inputs ==
    { Flatten(cs) : cs \in UNION { [1..n -> Chunks] : n \in 0..MaxChunks } }
        \cup PunctuationInputs

\* The inputs of the specification with fairness: every text of at most
\* MaxLiveLen characters, one character for each arm of the dispatch.
LiveAlphabet == {"f", "1", "\"", "|", "\n", "(", " ", "+"}

LiveInputs == UNION { [1..n -> LiveAlphabet] : n \in 0..MaxLiveLen }

\* The texts highlight_text is called with: at most MaxChunks chunks, a chunk
\* being a word of one of the tables or one character, so that the tokens of
\* every type occur.
HighlightChunks ==
    { <<c>> : c \in {"f", "1", "(", " ", "\n", "\"", "|", "+"} }
        \cup { <<"i", "f">>,
               <<"p", "r", "i", "n", "t">>,
               <<"T", "y", "p", "e", "E", "r", "r", "o", "r">> }

HighlightInputs ==
    { Flatten(cs) :
        cs \in UNION { [1..n -> HighlightChunks] : n \in 0..MaxChunks } }

(***************************************************************************)
(* highlight_text (src/src/ui.rs).  A Color32 is <<r, g, b, a>>.  A        *)
(* LayoutJob is its text and its sections; LayoutJob::append, of the egui  *)
(* crate, adds the literal to the text and pushes one section holding the  *)
(* range of the literal in the text and its format.  The ranges count      *)
(* bytes: every character of the inputs is ASCII, one byte each.           *)
(***************************************************************************)
\* Color32::from_code_color: Color32::from_rgb, an opaque color.
from_code_color(rgb) == <<rgb[1], rgb[2], rgb[3], 255>>

\* Color32::from_rgba_premultiplied
from_rgba_premultiplied(r, g, b, a) == <<r, g, b, a>>

\* The match of highlight_text, variant that reads code_color.ident for a
\* Fun token.
token_colorFunAsIdent(typ, cc) ==
    CASE typ = "Num" -> from_code_color(cc.number)
      [] typ = "Ident" -> from_code_color(cc.ident)
      [] typ = "Str" -> from_code_color(cc.string)
      [] typ = "Sym" -> from_code_color(cc.symbol)
      [] typ = "Kw" -> from_code_color(cc.keyword)
      [] typ = "BuiltinFun" -> from_code_color(cc.builtin_fn)
      [] typ = "Fun" -> from_code_color(cc.ident)
      [] typ = "Comment" -> from_code_color(cc.comment)
      [] typ = "Error" -> from_code_color(cc.error)
      [] typ = "Other" -> from_code_color(cc.other)

\* The match of highlight_text: the color of a token type.
token_color(typ, cc) ==
    CASE typ = "Num" -> from_code_color(cc.number)
      [] typ = "Ident" -> from_code_color(cc.ident)
      [] typ = "Str" -> from_code_color(cc.string)
      [] typ = "Sym" -> from_code_color(cc.symbol)
      [] typ = "Kw" -> from_code_color(cc.keyword)
      [] typ = "BuiltinFun" -> from_code_color(cc.builtin_fn)
      [] typ = "Fun" ->
            from_rgba_premultiplied(cc.fun[1], cc.fun[2], cc.fun[3], cc.fun[4])
      [] typ = "Comment" -> from_code_color(cc.comment)
      [] typ = "Error" -> from_code_color(cc.error)
      [] typ = "Other" -> from_code_color(cc.other)

\* egui::text::LayoutJob::default()
LayoutJobDefault == [text |-> <<>>, sections |-> <<>>]

\* egui::text::LayoutJob::append(&literal, 0.0, TextFormat {color, font_id})
job_append(j, literal, color, fs) ==
    [text |-> j.text \o literal,
     sections |-> Append(j.sections,
                         [leading_space |-> 0,
                          byte_range |-> <<Len(j.text),
                                           Len(j.text) + Len(literal)>>,
                          color |-> color,
                          font_size |-> fs])]

\* for token in tokens { ... job.append(...) }
RECURSIVE highlight_loop(_, _, _, _)
highlight_loop(j, toks, cc, fs) ==
    IF toks = <<>> THEN j
    ELSE highlight_loop(job_append(j, Head(toks)[2],
                                   token_color(Head(toks)[1], cc), fs),
                        Tail(toks), cc, fs)

\* highlight_text
highlight_text(txt, cc, fs) ==
    IF txt = <<>> THEN LayoutJobDefault
    ELSE highlight_loop(LayoutJobDefault, make_tokens(txt), cc, fs)

\* The settings the calls are checked with: two settings.json files, every
\* field of code_color with a color of its own.
CodeColorA ==
    [ident |-> <<1, 0, 0>>, number |-> <<2, 0, 0>>, string |-> <<3, 0, 0>>,
     symbol |-> <<4, 0, 0>>, keyword |-> <<5, 0, 0>>,
     builtin_fn |-> <<6, 0, 0>>, fun |-> <<7, 0, 0, 128>>,
     comment |-> <<8, 0, 0>>, error |-> <<9, 0, 0>>, other |-> <<10, 0, 0>>]

CodeColorB ==
    [ident |-> <<0, 10, 1>>, number |-> <<0, 9, 1>>, string |-> <<0, 8, 1>>,
     symbol |-> <<0, 7, 1>>, keyword |-> <<0, 6, 1>>,
     builtin_fn |-> <<0, 5, 1>>, fun |-> <<0, 4, 1, 255>>,
     comment |-> <<0, 3, 1>>, error |-> <<0, 2, 1>>, other |-> <<0, 1, 1>>]

HighlightSettings ==
    { [code_color |-> CodeColorA, code_font_size |-> 14],
      [code_color |-> CodeColorB, code_font_size |-> 17] }

\* No call of highlight_text is in progress.
HighlightIdle ==
    /\ text = <<>>
    /\ code_color = CodeColorA
    /\ font_size = 14
    /\ job = LayoutJobDefault
    /\ hl_done = FALSE

\* No Highligher is in use outside highlight_text.
LexerIdle ==
    /\ input = <<>>
    /\ source = <<>>
    /\ current_char = None
    /\ tokens = <<>>
    /\ returned = FALSE

(***************************************************************************)
(* The code editor (src/src/ui.rs).  A file of the disk is absent or holds *)
(* a text.  Every handler is one step; what the user answers to a dialog   *)
(* and whether a file operation or the launch succeeds are its inputs.     *)
(***************************************************************************)
EdAlphabet == {"a", "b"}

\* The texts typed in the editor or held by a file.
EdTexts == UNION { [1..n -> EdAlphabet] : n \in 0..MaxText }

Paths == {"p1", "p2"}

\* What the launched interpreter may print on stdout and stderr.
Outputs == { <<>>, <<"o">> }

Absent == [exists |-> FALSE, data |-> <<>>]

FileStates == {Absent} \cup { [exists |-> TRUE, data |-> t] : t \in EdTexts }

\* The fields of Settings read by the handlers.
SettingsChoices ==
    [save_btn : BOOLEAN, save_and_run : BOOLEAN, save_on_close : BOOLEAN]

NoEvent ==
    [op |-> "new", open |-> "none", save |-> "none", launched |-> None]

\* The editor as one value: the fields the handlers assign and the disk.
Ed ==
    [contents |-> contents, path |-> path, console |-> console,
     saved |-> saved, files |-> files]

\* File::write_all on a file opened without truncate and without append:
\* the bytes replace the head of the file, what lies beyond them stays.
write_at_start(old, bytes) == bytes \o SubSeq(old, Len(bytes) + 1, Len(old))

\* CodeEditor::save_file_contents, variant that sets saved once the file is
\* open, whatever write_all returns.
save_file_contentsAlwaysSaved(ed, p, openOk, n) ==
    IF ~openOk THEN ed
    ELSE [ed EXCEPT
            !.files[p] = [exists |-> TRUE,
                          data |-> write_at_start(ed.files[p].data,
                                                  SubSeq(ed.contents, 1, n))],
            !.saved = TRUE]

\* CodeEditor::save_file_contents.  openOk: OpenOptions::open succeeded (it
\* creates the file when absent); n: the number of bytes write_all wrote,
\* all of them when it succeeded.
save_file_contents(ed, p, openOk, n) ==
    IF ~openOk THEN ed
    ELSE [ed EXCEPT
            !.files[p] = [exists |-> TRUE,
                          data |-> write_at_start(ed.files[p].data,
                                                  SubSeq(ed.contents, 1, n))],
            !.saved = IF n = Len(ed.contents) THEN TRUE ELSE ed.saved]

\* CodeEditor::save_file.  dlg: the answer of the save dialog, None when the
\* user left it.
save_file(ed, dlg, openOk, n) ==
    IF ed.path /= None THEN save_file_contents(ed, ed.path, openOk, n)
    ELSE IF dlg = None THEN ed
    ELSE save_file_contents([ed EXCEPT !.path = dlg], dlg, openOk, n)

\* What a call of save_file did.
save_result(ed, dlg, openOk, n) ==
    IF ed.path = None /\ dlg = None THEN "cancelled"
    ELSE IF ~openOk THEN "open_failed"
    ELSE IF n < Len(ed.contents) THEN "write_failed"
    ELSE "written"

\* CodeEditor::open_file, variant that stores the path before reading.
open_filePathFirst(ed, dlg, readOk) ==
    IF dlg = None THEN ed
    ELSE IF ed.files[dlg].exists /\ readOk
    THEN [ed EXCEPT !.saved = TRUE, !.path = dlg,
                    !.contents = ed.files[dlg].data]
    ELSE [ed EXCEPT !.path = dlg]

\* CodeEditor::open_file.  dlg: the answer of the pick dialog; readOk:
\* fs::read_to_string succeeded, which needs the file to exist.
open_file(ed, dlg, readOk) ==
    IF dlg = None THEN ed
    ELSE IF ed.files[dlg].exists /\ readOk
    THEN [ed EXCEPT !.saved = TRUE, !.path = dlg,
                    !.contents = ed.files[dlg].data]
    ELSE ed

\* What a call of open_file did.
open_result(ed, dlg, readOk) ==
    IF dlg = None THEN "cancelled"
    ELSE IF ed.files[dlg].exists /\ readOk THEN "read"
    ELSE "read_failed"

\* The path run_file gives to run_betty, variant that falls back on a
\* default file when no path is set.
run_launchDefault(e1) == IF e1.path = None THEN "p1" ELSE e1.path

\* The path run_file gives to run_betty after its save step, None when it
\* returns without calling it: `let Some(ref path) = self.path else return`.
run_launch(e1) == e1.path

\* CodeEditor::run_file.  runOk: run_betty returned Ok(output); out: stdout
\* followed by stderr.
run_file(ed, dlg, openOk, n, runOk, out) ==
    LET e1 == IF settings.save_and_run THEN save_file(ed, dlg, openOk, n)
              ELSE ed
    IN  IF run_launch(e1) = None THEN e1
        ELSE IF runOk THEN [e1 EXCEPT !.console = out]
        ELSE e1

\* The handler stores its effects in the editor.
Store(e) ==
    /\ contents' = e.contents
    /\ path' = e.path
    /\ console' = e.console
    /\ saved' = e.saved
    /\ files' = e.files
    /\ UNCHANGED settings
    /\ UNCHANGED <<lexVars, hlVars>>

Running == event.op /= "close"

\* No editor is running.
EditorIdle ==
    /\ contents = <<>>
    /\ path = None
    /\ console = <<>>
    /\ saved = FALSE
    /\ settings = [save_btn |-> FALSE, save_and_run |-> FALSE,
                   save_on_close |-> FALSE]
    /\ files = [p \in Paths |-> Absent]
    /\ event = NoEvent

\* CodeEditor::new, with the settings of settings.json and the disk as it is.
EditorInit ==
    /\ LexerIdle
    /\ HighlightIdle
    /\ contents = <<>>
    /\ path = None
    /\ console = <<>>
    /\ saved = FALSE
    /\ settings \in SettingsChoices
    /\ files \in [Paths -> FileStates]
    /\ event = NoEvent

\* draw_code_editor: the user changed the text of the TextEdit.
EditContents ==
    /\ Running
    /\ \E t \in EdTexts \ {contents} :
           Store([Ed EXCEPT !.contents = t, !.saved = FALSE])
    /\ event' = [NoEvent EXCEPT !.op = "edit"]

\* draw_top_section: the Open button.
OpenButton ==
    /\ Running
    /\ \E dlg \in Paths \cup {None}, readOk \in BOOLEAN :
           \* read_to_string is called only with a path
           /\ dlg = None => ~readOk
           /\ Store(open_file(Ed, dlg, readOk))
           /\ event' = [NoEvent EXCEPT !.op = "open",
                                       !.open = open_result(Ed, dlg, readOk)]

\* The inputs of a call of save_file: the dialog is shown only when no path
\* is set, the file is opened only when there is a path to open, and
\* write_all is called only on an open file.
SaveInputs(ed) ==
    { c \in [dlg : Paths \cup {None}, openOk : BOOLEAN,
             n : 0..Len(ed.contents)] :
        /\ ed.path /= None => c.dlg = None
        /\ (ed.path = None /\ c.dlg = None) => ~c.openOk
        /\ ~c.openOk => c.n = 0 }

\* The inputs of a call that does not reach save_file.
NoSave == [dlg |-> None, openOk |-> FALSE, n |-> 0]

\* The inputs of the launch: run_betty returns Ok only when it is called,
\* and its output is read only when it returned Ok.
RunInputs(e1) ==
    { r \in [runOk : BOOLEAN, out : Outputs] :
        /\ run_launch(e1) = None => ~r.runOk
        /\ ~r.runOk => r.out = <<>> }

\* draw_top_section: the Save button, shown when settings.save_btn.
SaveButton ==
    /\ Running
    /\ settings.save_btn
    /\ \E c \in SaveInputs(Ed) :
           /\ Store(save_file(Ed, c.dlg, c.openOk, c.n))
           /\ event' = [NoEvent EXCEPT !.op = "save_button",
                           !.save = save_result(Ed, c.dlg, c.openOk, c.n)]

\* handle_ctrl_s: Ctrl+S while the file is not saved.
CtrlS ==
    /\ Running
    /\ ~saved
    /\ \E c \in SaveInputs(Ed) :
           /\ Store(save_file(Ed, c.dlg, c.openOk, c.n))
           /\ event' = [NoEvent EXCEPT !.op = "ctrl_s",
                           !.save = save_result(Ed, c.dlg, c.openOk, c.n)]

\* The editor after the save step of run_file.
after_save_step(ed, dlg, openOk, n) ==
    IF settings.save_and_run THEN save_file(ed, dlg, openOk, n) ELSE ed

\* The event a call of run_file leaves: the result of its save step and the
\* path given to run_betty, None when the interpreter was not launched.
run_event(op, dlg, openOk, n) ==
    [NoEvent EXCEPT
        !.op = op,
        !.save = IF settings.save_and_run
                 THEN save_result(Ed, dlg, openOk, n) ELSE "none",
        !.launched = run_launch(after_save_step(Ed, dlg, openOk, n))]

\* A call of run_file from handler op.
RunFrom(op) ==
    \E c \in (IF settings.save_and_run THEN SaveInputs(Ed) ELSE {NoSave}) :
        \E r \in RunInputs(after_save_step(Ed, c.dlg, c.openOk, c.n)) :
            /\ Store(run_file(Ed, c.dlg, c.openOk, c.n, r.runOk, r.out))
            /\ event' = run_event(op, c.dlg, c.openOk, c.n)

\* draw_top_section: the Run button.
RunButton ==
    /\ Running
    /\ RunFrom("run_button")

\* handle_ctrl_r: Ctrl+R while the file is not saved.
CtrlR ==
    /\ Running
    /\ ~saved
    /\ RunFrom("ctrl_r")

\* on_close_event
OnClose ==
    /\ Running
    /\ IF settings.save_on_close /\ contents /= <<>>
       THEN \E c \in SaveInputs(Ed) :
               /\ Store(save_file(Ed, c.dlg, c.openOk, c.n))
               /\ event' = [NoEvent EXCEPT !.op = "close",
                               !.save = save_result(Ed, c.dlg, c.openOk, c.n)]
       ELSE /\ Store(Ed)
            /\ event' = [NoEvent EXCEPT !.op = "close"]

EditorNext ==
    \/ EditContents
    \/ OpenButton
    \/ SaveButton
    \/ CtrlS
    \/ RunButton
    \/ CtrlR
    \/ OnClose

EditorSpec == EditorInit /\ [][EditorNext]_vars

(***************************************************************************)
(* A call of highlight_text as a state machine.                            *)
(***************************************************************************)
\* highlight_text is called by the layouter of the code editor.
HighlightInit ==
    /\ LexerIdle
    /\ EditorIdle
    /\ text \in HighlightInputs
    /\ \E st \in HighlightSettings :
           /\ code_color = st.code_color
           /\ font_size = st.code_font_size
    /\ job = LayoutJobDefault
    /\ hl_done = FALSE

\* The call runs to its return.
Highlight ==
    /\ ~hl_done
    /\ job' = highlight_text(text, code_color, font_size)
    /\ hl_done' = TRUE
    /\ UNCHANGED <<text, code_color, font_size>>
    /\ UNCHANGED <<lexVars, edVars>>

HighlightNext == Highlight

HighlightSpec == HighlightInit /\ [][HighlightNext]_vars

(***************************************************************************)
(* The state machine: Highligher::new(s), then one step per iteration of   *)
(* the loop of make_tokens, then the return of the token vector.           *)
(***************************************************************************)
Constructed(s) ==
    /\ input = s
    /\ source = new(s).source
    /\ current_char = new(s).current_char
    /\ tokens = <<>>
    /\ returned = FALSE

Init == HighlightIdle /\ EditorIdle /\ \E s \in Inputs : Constructed(s)

LiveInit ==
    HighlightIdle /\ EditorIdle /\ \E s \in LiveInputs : Constructed(s)

\* tokens.push(token), variant that joins an Other token to an Other token
\* before it.
EmitMerging(r) ==
    /\ tokens' =
           IF /\ tokens /= <<>>
              /\ tokens[Len(tokens)][1] = "Other"
              /\ r.tok[1] = "Other"
           THEN [tokens EXCEPT ![Len(tokens)] =
                    <<"Other", tokens[Len(tokens)][2] \o r.tok[2]>>]
           ELSE Append(tokens, r.tok)
    /\ current_char' = r.current_char
    /\ source' = r.source
    /\ UNCHANGED <<input, returned>>
    /\ UNCHANGED <<hlVars, edVars>>

\* tokens.push(token), with the cursor the scan routine left.
Emit(r) ==
    /\ tokens' = Append(tokens, r.tok)
    /\ current_char' = r.current_char
    /\ source' = r.source
    /\ UNCHANGED <<input, returned>>
    /\ UNCHANGED <<hlVars, edVars>>

\* 'a'..='z' | 'A'..='Z' | '_' => self.make_ident()
MakeIdent ==
    /\ ~returned
    /\ current_char /= None
    /\ IsIdentStart(current_char)
    /\ Emit(make_ident(current_char, source))

\* '0'..='9' => self.make_num()
MakeNum ==
    /\ ~returned
    /\ current_char /= None
    /\ IsDigit(current_char)
    /\ Emit(make_num(current_char, source))

\* '"' => self.make_str()
MakeStr ==
    /\ ~returned
    /\ current_char = "\""
    /\ Emit(make_str(current_char, source))

\* '|' => self.make_comment()
MakeComment ==
    /\ ~returned
    /\ current_char = "|"
    /\ Emit(make_comment(current_char, source))

\* _ => self.make_sym_or_other(ch)
MakeSymOrOther ==
    /\ ~returned
    /\ current_char /= None
    /\ ~IsIdentStart(current_char)
    /\ ~IsDigit(current_char)
    /\ current_char \notin {"\"", "|"}
    /\ Emit(make_sym_or_other(current_char, source))

\* The loop condition fails: make_tokens returns tokens.
Return ==
    /\ ~returned
    /\ current_char = None
    /\ returned' = TRUE
    /\ UNCHANGED <<input, source, current_char, tokens>>
    /\ UNCHANGED <<hlVars, edVars>>

Next ==
    \/ MakeIdent
    \/ MakeNum
    \/ MakeStr
    \/ MakeComment
    \/ MakeSymOrOther
    \/ Return

Spec == Init /\ [][Next]_vars

\* The loop of make_tokens runs without interruption until it returns.
FairSpec == LiveInit /\ [][Next]_vars /\ WF_vars(Next)

(***************************************************************************)
(* Vocabulary of the properties.  Token k of the vector is read against    *)
(* the input text: the characters before it, from it and after it.         *)
(***************************************************************************)
Typ(k) == tokens[k][1]

Lit(k) == tokens[k][2]

Literals(n) == [j \in 1..n |-> tokens[j][2]]

\* The number of characters emitted before token k.
RECURSIVE Before(_)
Before(k) == IF k = 1 THEN 0 ELSE Before(k - 1) + Len(tokens[k - 1][2])

\* The input from the first character of token k on.
From(k) == SubSeq(input, Before(k) + 1, Len(input))

\* The input after the last character of token k.
After(k) == SubSeq(input, Before(k) + Len(Lit(k)) + 1, Len(input))

\* The characters not yet consumed.
Rest == (IF current_char = None THEN <<>> ELSE <<current_char>>) \o source

WordStart == LowerCase \cup UpperCase \cup {"_"}

WordChars == LowerCase \cup UpperCase \cup Digits \cup {"_"}

NumChars == Digits \cup {".", "_"}

Blanks == {" ", "\t"}

\* The length of the longest prefix of s made of characters of set cs.
RECURSIVE RunLen(_, _)
RunLen(s, cs) ==
    IF s /= <<>> /\ Head(s) \in cs THEN 1 + RunLen(Tail(s), cs) ELSE 0

\* The position of the first character c of s, 0 when there is none.
RECURSIVE IndexOf(_, _)
IndexOf(s, c) ==
    IF s = <<>> THEN 0
    ELSE IF Head(s) = c THEN 1
    ELSE LET i == IndexOf(Tail(s), c) IN IF i = 0 THEN 0 ELSE i + 1

InTables(lit) == Str(lit) \in KEYWORDS \cup BUILTIN_FUNCTIONS \cup ERRORS

\* Token k was produced by the identifier scan, the number scan, the string
\* scan: the scan is chosen by the first character of the token.
IsIdentToken(k) == From(k) /= <<>> /\ From(k)[1] \in WordStart

IsNumToken(k) == From(k) /= <<>> /\ From(k)[1] \in Digits

IsStrToken(k) == From(k) /= <<>> /\ From(k)[1] = "\""

\* C1: the literals of the returned tokens, concatenated in order, are the
\* input text.
C1_Lossless == returned => Flatten(Literals(Len(tokens))) = input

C1_Witness ==
    /\ returned
    /\ input = <<"i", "f", " ", "1", "_", "0", "0", "0">>
    /\ Len(tokens) = 3
    /\ Typ(1) = "Kw" /\ Typ(2) = "Other" /\ Typ(3) = "Num"

\* C2: under the fair scheduling of the loop, make_tokens returns for every
\* input, and the returned vector is empty exactly for the empty input.
C2_Terminates ==
    /\ <>returned
    /\ [](returned => (tokens = <<>> <=> input = <<>>))

C2_Witness ==
    /\ returned
    /\ input = <<"\"", "|", "f">>
    /\ Len(tokens) = 1

\* C3: the text of an identifier scan is Kw if it is a keyword, else
\* BuiltinFun if it is a builtin function, else Error if it is a builtin
\* error, else Fun if the lookahead finds '(', else Ident; a name of one of
\* the tables directly followed by '(' is not Fun.
C3_Priority ==
    \A k \in 1..Len(tokens) :
        IsIdentToken(k) =>
            LET name == Str(Lit(k))
                aft == After(k)
                call == next_is(IF aft = <<>> THEN None ELSE Head(aft),
                                IF aft = <<>> THEN <<>> ELSE Tail(aft), "(")
            IN  /\ Typ(k) =
                     (IF name \in KEYWORDS THEN "Kw"
                      ELSE IF name \in BUILTIN_FUNCTIONS THEN "BuiltinFun"
                      ELSE IF name \in ERRORS THEN "Error"
                      ELSE IF call THEN "Fun"
                      ELSE "Ident")
                /\ (InTables(Lit(k)) /\ aft /= <<>> /\ Head(aft) = "(")
                       => Typ(k) /= "Fun"

C3_Witness ==
    /\ returned
    /\ input = <<"p", "r", "i", "n", "t", "(">>
    /\ tokens = << <<"BuiltinFun", <<"p", "r", "i", "n", "t">> >>,
                   <<"Other", <<"(">> >> >>

\* C4: an identifier-scan token whose text is in no table is Fun only if
\* the first character after the identifier, once spaces and tabs (and
\* nothing else) are skipped, is '('; otherwise it is Ident.
C4_FunOnlyBeforeParen ==
    \A k \in 1..Len(tokens) :
        (IsIdentToken(k) /\ ~InTables(Lit(k))) =>
            LET aft == After(k)
                n == RunLen(aft, Blanks)
            IN  Typ(k) = (IF Len(aft) > n /\ aft[n + 1] = "("
                          THEN "Fun" ELSE "Ident")

\* C5: an identifier in no table that is followed, after zero or more
\* spaces and tabs, by '(' is a Fun token whose literal is the identifier
\* alone; each skipped space or tab and the '(' follow as tokens of one
\* character.
C5_UserCall ==
    \A k \in 1..Len(tokens) :
        LET aft == After(k)
            n == RunLen(aft, Blanks)
        IN  (/\ IsIdentToken(k)
             /\ ~InTables(Lit(k))
             /\ Len(aft) > n
             /\ aft[n + 1] = "(") =>
                /\ Typ(k) = "Fun"
                /\ Lit(k) = SubSeq(From(k), 1, RunLen(From(k), WordChars))
                /\ \A j \in 1..(n + 1) :
                       k + j <= Len(tokens) =>
                           tokens[k + j] = <<"Other", <<aft[j]>> >>
                /\ returned => Len(tokens) >= k + n + 1

C5_Witness ==
    /\ returned
    /\ tokens = << <<"Fun", <<"I", "f">> >>,
                   <<"Other", <<"\t">> >>,
                   <<"Other", <<"(">> >> >>

\* C6: the identifier scan, entered on a letter or '_', takes the maximal
\* run of letters, digits and '_', and the tables are matched exactly
\* against the whole run: `iffy` is one Ident token.
C6_MaximalMunch ==
    /\ \A k \in 1..Len(tokens) :
           IsIdentToken(k) =>
               /\ Lit(k) = SubSeq(From(k), 1, RunLen(From(k), WordChars))
               /\ Typ(k) = "Kw" <=> Str(Lit(k)) \in KEYWORDS
               /\ Typ(k) = "BuiltinFun" <=> Str(Lit(k)) \in BUILTIN_FUNCTIONS
               /\ Typ(k) = "Error" <=> Str(Lit(k)) \in ERRORS
    /\ (returned /\ input = <<"i", "f", "f", "y">>)
           => tokens = << <<"Ident", <<"i", "f", "f", "y">> >> >>

C6_Witness ==
    /\ returned
    /\ tokens = << <<"Ident", <<"i", "f", "f", "y">> >> >>

\* C7: a number-scan token is Num when its literal without the '_' parses
\* as a 64-bit integer or as a 64-bit float, and Other when both fail;
\* `1_000` is the single token Num and `1.2.3` the single token Other.
C7_NumClass ==
    /\ \A k \in 1..Len(tokens) :
           IsNumToken(k) =>
               LET bare == SelectSeq(Lit(k), LAMBDA c : c /= "_")
               IN  Typ(k) = (IF ParseIntOk(bare) \/ ParseFloatOk(bare)
                             THEN "Num" ELSE "Other")
    /\ (returned /\ input = <<"1", "_", "0", "0", "0">>)
           => tokens = << <<"Num", <<"1", "_", "0", "0", "0">> >> >>
    /\ (returned /\ input = <<"1", ".", "2", ".", "3">>)
           => tokens = << <<"Other", <<"1", ".", "2", ".", "3">> >> >>

C7_Witness ==
    /\ returned
    /\ Len(tokens) = 3
    /\ tokens[1] = <<"Num", <<"1", "_", "0", "0", "0">> >>
    /\ tokens[2] = <<"Other", <<" ">> >>
    /\ tokens[3] = <<"Other", <<"1", ".", "2", ".", "3">> >>

\* C8: the literal of a number scan, entered on a digit, is the maximal run
\* of digits, '.' and '_' from that digit, underscores included; the
\* character after the token is none of these.
C8_NumRun ==
    \A k \in 1..Len(tokens) :
        IsNumToken(k) =>
            /\ Lit(k) = SubSeq(From(k), 1, RunLen(From(k), NumChars))
            /\ After(k) /= <<>> => Head(After(k)) \notin NumChars

C8_Witness ==
    /\ returned
    /\ Len(tokens) = 2
    /\ Lit(1) = <<"1", "_", "0", "0", "0", "_">>
    /\ Lit(2) = <<"f">>

\* C9: a token started by '"' is Str and, when a later '"' exists, its
\* literal runs from the opening quote to the first later '"' included,
\* whatever lies between; the scan resumes right after the closing quote.
C9_StrClosed ==
    \A k \in 1..Len(tokens) :
        LET close == IndexOf(Tail(From(k)), "\"") IN
        (IsStrToken(k) /\ close /= 0) =>
            /\ Typ(k) = "Str"
            /\ Lit(k) = SubSeq(From(k), 1, close + 1)
            /\ k = Len(tokens) =>
                   Rest = SubSeq(From(k), close + 2, Len(From(k)))

C9_Witness ==
    /\ returned
    /\ tokens = << <<"Str", <<"\"", "\\", "\"">> >>,
                   <<"Ident", <<"f">> >> >>

\* C10: when no '"' follows an opening '"', the scan emits one Str token
\* made of the opening quote and all the remaining input, without a closing
\* quote, and it is the last token.
C10_StrUnterminated ==
    \A k \in 1..Len(tokens) :
        (IsStrToken(k) /\ IndexOf(Tail(From(k)), "\"") = 0) =>
            /\ Typ(k) = "Str"
            /\ Lit(k) = From(k)
            /\ k = Len(tokens)
            /\ Rest = <<>>

C10_Witness ==
    /\ returned
    /\ tokens = << <<"Ident", <<"f">> >>,
                   <<"Str", <<"\"", "\n">> >> >>

IsCommentToken(k) == From(k) /= <<>> /\ From(k)[1] = "|"

\* Token k was produced by the symbol/fallback scan.
IsFallbackToken(k) ==
    /\ From(k) /= <<>>
    /\ From(k)[1] \notin WordStart \cup Digits \cup {"\"", "|"}

\* C11: a token started by '|' is Comment; its literal runs from the '|' up
\* to, not including, the next newline, or to the end of the input; it never
\* holds a newline, and the newline is the next token, a one-character Other.
C11_Comment ==
    \A k \in 1..Len(tokens) :
        IsCommentToken(k) =>
            LET nl == IndexOf(From(k), "\n") IN
            /\ Typ(k) = "Comment"
            /\ Lit(k) = (IF nl = 0 THEN From(k) ELSE SubSeq(From(k), 1, nl - 1))
            /\ \A i \in 1..Len(Lit(k)) : Lit(k)[i] /= "\n"
            /\ nl /= 0 =>
                   /\ k + 1 <= Len(tokens) => tokens[k + 1] = <<"Other", <<"\n">> >>
                   /\ returned => k + 1 <= Len(tokens)
            /\ (nl = 0 /\ returned) => k = Len(tokens)

C11_Witness ==
    /\ returned
    /\ tokens = << <<"Comment", <<"|", "\"">> >>,
                   <<"Other", <<"\n">> >> >>

\* C12: a character that starts none of the other four scans is one token
\* of one character, Sym iff it is one of + - * / ^ % : = > < ! ? and Other
\* otherwise: parentheses, brackets, comma, period and whitespace are Other.
C12_SymOrOther ==
    \A k \in 1..Len(tokens) :
        IsFallbackToken(k) =>
            /\ Lit(k) = <<From(k)[1]>>
            /\ Typ(k) = (IF From(k)[1] \in {"+", "-", "*", "/", "^", "%", ":",
                                            "=", ">", "<", "!", "?"}
                         THEN "Sym" ELSE "Other")
            /\ From(k)[1] \in {"(", ")", "[", "]", ",", ".", " ", "\t", "\n"}
                   => Typ(k) = "Other"

C12_Witness ==
    /\ returned
    /\ tokens = << <<"Other", <<"(">> >>,
                   <<"Sym", <<"?">> >>,
                   <<"Other", <<".">> >> >>

\* C15: every iteration of the loop of make_tokens appends exactly one
\* token, whose literal is not empty, and strictly decreases the number of
\* unconsumed characters; the loop ends exactly when the current character
\* is none.
C15_Progress ==
    /\ [][ \/ /\ current_char /= None
              /\ ~returned'
              /\ Len(tokens') = Len(tokens) + 1
              /\ SubSeq(tokens', 1, Len(tokens)) = tokens
              /\ Len(tokens'[Len(tokens')][2]) > 0
              /\ Len(Rest') < Len(Rest)
           \/ /\ current_char = None
              /\ returned'
              /\ tokens' = tokens ]_vars
    /\ [](returned => current_char = None)
    /\ []((~returned /\ current_char = None) => ENABLED Return)

C15_Witness ==
    /\ returned
    /\ Len(tokens) = 3
    /\ Typ(1) = "Comment" /\ Typ(2) = "Other" /\ Typ(3) = "Error"

\* C16: next_is leaves the scan state unchanged: right after an identifier
\* scan that called it, whatever its result, the current character and the
\* queue are the input that follows the identifier.
C16_NextIsFrame ==
    \A k \in 1..Len(tokens) :
        (k = Len(tokens) /\ IsIdentToken(k) /\ ~InTables(Lit(k))) =>
            /\ Typ(k) \in {"Fun", "Ident"}
            /\ Rest = After(k)

C16_Witness ==
    /\ ~returned
    /\ tokens = << <<"Fun", <<"f">> >> >>
    /\ current_char = "\t"
    /\ source = <<"(">>

\* C17: only the cursor carries across tokens: at every token boundary of
\* the returned vector, the tokens after the boundary are the tokens
\* obtained by lexing on its own the input that starts at the boundary.
C17_SuffixLexing ==
    returned =>
        \A k \in 0..Len(tokens) :
            SubSeq(tokens, k + 1, Len(tokens)) =
                make_tokens(SubSeq(input, Len(Flatten(Literals(k))) + 1,
                                   Len(input)))

C17_Witness ==
    /\ returned
    /\ tokens = << <<"Other", <<" ">> >>,
                   <<"Other", <<"(">> >>,
                   <<"Kw", <<"i", "f">> >> >>

\* The color configured for a token type: the field of code_color named
\* after it, opaque, and the four components of `fun` for Fun.
ConfiguredColor(typ) ==
    LET rgb == CASE typ = "Ident" -> code_color.ident
                 [] typ = "Num" -> code_color.number
                 [] typ = "Str" -> code_color.string
                 [] typ = "Sym" -> code_color.symbol
                 [] typ = "Kw" -> code_color.keyword
                 [] typ = "BuiltinFun" -> code_color.builtin_fn
                 [] typ = "Comment" -> code_color.comment
                 [] typ = "Error" -> code_color.error
                 [] typ = "Other" -> code_color.other
                 [] typ = "Fun" -> code_color.fun
    IN  IF typ = "Fun" THEN rgb ELSE rgb \o <<255>>

\* C14: highlight_text appends one section per token, in token order, each
\* with the literal of the token and the color configured for its type, so
\* that the text of the job is the input text; the job of the empty text is
\* empty.
C14_Rendering ==
    hl_done =>
        LET toks == make_tokens(text) IN
        /\ Len(job.sections) = Len(toks)
        /\ \A i \in 1..Len(job.sections) :
               LET sec == job.sections[i] IN
               /\ i <= Len(toks)
               /\ sec.byte_range[1] =
                      (IF i = 1 THEN 0 ELSE job.sections[i - 1].byte_range[2])
               /\ SubSeq(job.text, sec.byte_range[1] + 1, sec.byte_range[2])
                      = toks[i][2]
               /\ sec.color = ConfiguredColor(toks[i][1])
        /\ job.text = text
        /\ text = <<>> => job = [text |-> <<>>, sections |-> <<>>]

C14_Witness ==
    /\ hl_done
    /\ text = <<"f", "(", "\"">>
    /\ Len(job.sections) = 3
    /\ job.sections[1].color = <<7, 0, 0, 128>>
    /\ job.sections[3].byte_range = <<2, 3>>

\* C18: saved becomes false whenever the user changes the contents, and
\* becomes true only through a file open that succeeded or a write of the
\* contents that succeeded; no other event changes it.
C18_SavedFlag ==
    [][ /\ event'.op = "edit" => (contents' /= contents /\ ~saved')
        /\ saved' /= saved =>
               \/ event'.op = "edit" /\ ~saved'
               \/ event'.open = "read" /\ saved'
               \/ event'.save = "written" /\ saved' ]_vars

C18_Witness ==
    /\ event.op = "ctrl_s"
    /\ event.save = "write_failed"
    /\ ~saved
    /\ path = "p2"
    /\ contents = <<"b">>

\* C19: after save_file_contents succeeds and sets saved, the file at the
\* path holds exactly the contents of the editor, whatever it held before.
C19_SaveWritesContents ==
    event.save = "written" =>
        /\ saved
        /\ path /= None
        /\ files[path].exists
        /\ files[path].data = contents

\* C20: when the dialog of open_file is cancelled or the file cannot be
\* read, contents, path and saved are unchanged; when save_file has no path
\* and its dialog is cancelled, path and saved are unchanged and nothing is
\* written.
C20_FailureFrame ==
    [][ /\ event'.open \in {"cancelled", "read_failed"} =>
               UNCHANGED <<contents, path, saved>>
        /\ event'.save = "cancelled" =>
               (path = None /\ UNCHANGED <<path, saved, files>>) ]_vars

C20_Witness ==
    /\ event.op = "open"
    /\ event.open = "read_failed"
    /\ path = "p1"
    /\ contents = <<"a">>
    /\ ~saved

\* The handlers that call run_file.
RunOps == {"run_button", "ctrl_r"}

\* C21: run_file starts the interpreter only on the path that is set after
\* its save step; when none is set, through a cancelled save dialog or
\* without a save step, nothing is launched and the console is unchanged.
C21_NoLaunchWithoutPath ==
    [][ event'.op \in RunOps =>
            /\ event'.launched /= None => event'.launched = path'
            /\ path' = None =>
                   (event'.launched = None /\ console' = console) ]_vars

C21_Witness ==
    /\ event.op = "run_button"
    /\ settings.save_and_run
    /\ event.save = "cancelled"
    /\ event.launched = None
    /\ path = None
    /\ contents = <<"a">>

\* C22: with save_and_run, a call of run_file that launched the interpreter
\* first saved the contents: its save step wrote them, to the path that is
\* launched, and the editor is saved.
C22_SaveBeforeRun ==
    (event.op \in RunOps /\ settings.save_and_run /\ event.launched /= None)
        => /\ event.save = "written"
           /\ event.launched = path
           /\ saved

\* C23: the type of a token agrees with the tables: the literal of a Kw
\* token is a keyword, of a BuiltinFun token a builtin function, of an Error
\* token a builtin error, and the literal of an Ident or Fun token is in none
\* of the three tables.
C23_TableConsistency ==
    \A k \in 1..Len(tokens) :
        /\ Typ(k) = "Kw" => Str(Lit(k)) \in KEYWORDS
        /\ Typ(k) = "BuiltinFun" => Str(Lit(k)) \in BUILTIN_FUNCTIONS
        /\ Typ(k) = "Error" => Str(Lit(k)) \in ERRORS
        /\ Typ(k) \in {"Ident", "Fun"} =>
               Str(Lit(k)) \notin KEYWORDS \cup BUILTIN_FUNCTIONS \cup ERRORS

C23_Witness ==
    /\ returned
    /\ tokens = << <<"Error", <<"T", "y", "p", "e", "E", "r", "r", "o", "r">> >>,
                   <<"Other", <<"(">> >>,
                   <<"Ident", <<"I", "f">> >> >>

\* The number of '.' in a literal.
Dots(lit) == Len(SelectSeq(lit, LAMBDA c : c = "."))

TooLargeForI64 ==
    <<"9", "2", "2", "3", "3", "7", "2", "0", "3", "6", "8", "5", "4", "7",
      "7", "5", "8", "0", "8">>

\* C24: a number-scan token is Other exactly when its literal holds two or
\* more '.'; `1.`, `1_` and a digit run too large for a 64-bit integer are
\* each the single token Num.
C24_OtherIffTwoDots ==
    /\ \A k \in 1..Len(tokens) :
           IsNumToken(k) =>
               /\ Typ(k) \in {"Num", "Other"}
               /\ Typ(k) = "Other" <=> Dots(Lit(k)) >= 2
    /\ (returned /\ input \in {<<"1", ".">>, <<"1", "_">>, TooLargeForI64})
           => tokens = << <<"Num", input>> >>

C24_Witness ==
    /\ returned
    /\ tokens = << <<"Num", TooLargeForI64 \o <<".">> >>,
                   <<"Other", <<"\n">> >> >>

====
